---- MODULE Spec2Model ----
(***************************************************************************)
(* Model of Kokkos_Blas1_MV_impl.hpp: the multivector kernels dot,         *)
(* single-pair dot, nrm2_squared and fill, their reduction / fill functors *)
(* and the narrow-int / wide-size_type index selection of the dispatchers. *)
(*                                                                         *)
(* Integer widths are scaled: size_type has SizeBits bits (unsigned) and   *)
(* int has IntBits bits (two's complement), so that shapes on both sides   *)
(* of INT_MAX are small enough to execute row by row.  Scalars are exact   *)
(* integers (real scalar type, no rounding).                               *)
(***************************************************************************)
EXTENDS Integers, Sequences, FiniteSets, TLC

\* ---------------------------------------------------------------- bounds
IntBits == 6
SizeBits == 7
NumWorkers == 2
MaxRows == 3

\* ------------------------------------------------------ program constants
\* numVecs > 16 selects the runtime-column-loop functor; 1..16 are unrolled.
UnrollMax == 16

INT_MAX == 2^(IntBits - 1) - 1
IntMod == 2^IntBits
SizeMod == 2^SizeBits

\* ------------------------------------------------------------ conversions
\* size_type -> int (implicit conversion / constructor argument): the value
\* modulo 2^IntBits, read as two's complement.
ToInt(v) == LET m == v % IntMod IN IF m > INT_MAX THEN m - IntMod ELSE m

\* numRows * numCols evaluated in the unsigned size_type.
SizeMul(a, b) == (a * b) % SizeMod

Max0(n) == IF n > 0 THEN n ELSE 0

\* ------------------------------------------------------------ scalar traits
AT_zero == 0
IPT_dot(a, b) == a * b
IPT_norm(a) == IF a < 0 THEN 0 - a ELSE a

\* ------------------------------------------------------------------ inputs
\* Element (i, k) of the input families used to build X and Y.
\*   "lin"  : 2i + k + 1          (rows 3, cols 2: [[1,2],[3,4],[5,6]])
\*   "eye"  : 1 on the diagonal and on the last row, else 0
\*                                (rows 3, cols 2: [[1,0],[0,1],[1,1]])
\*   "neg"  : (k + 1), negated on odd rows
\*   "ends" : 1 on the first and the last row, else 0
Elem(fam, rows, i, k) ==
  CASE fam = "lin" -> 2 * i + k + 1
    [] fam = "eye" -> IF i = k \/ i = rows - 1 THEN 1 ELSE 0
    [] fam = "neg" -> IF i % 2 = 0 THEN k + 1 ELSE 0 - (k + 1)
    [] OTHER -> IF i = 0 \/ i = rows - 1 THEN 1 ELSE 0

Mat(fam, rows, cols) ==
  [i \in 0 .. rows - 1 |-> [k \in 0 .. cols - 1 |-> Elem(fam, rows, i, k)]]

ColCounts == 0 .. UnrollMax + 1

\* Shapes a view can have: the element count is representable in size_type.
SmallShapes == {s \in (0 .. MaxRows) \X ColCounts : s[1] * s[2] < SizeMod}
\* Shapes around the int limit: rows = INT_MAX - 1, INT_MAX, INT_MAX + 1 with
\* one column, half of INT_MAX + 1 rows with two columns (the product is the
\* first to leave int), and no rows with more columns than int holds.
LargeShapes ==
  {<<INT_MAX - 1, 1>>, <<INT_MAX, 1>>, <<INT_MAX + 1, 1>>,
   <<(INT_MAX + 1) \div 2, 2>>, <<0, INT_MAX + 2>>}

Inputs ==
  {[rows |-> s[1], cols |-> s[2], xf |-> f[1], yf |-> f[2]] :
      s \in SmallShapes, f \in {<<"lin", "eye">>, <<"neg", "neg">>}}
  \cup
  {[rows |-> s[1], cols |-> s[2], xf |-> "ends", yf |-> "ends"] :
      s \in LargeShapes}

FillValues == {0, 5}
\* What the result container holds before the first call.
Garbage == 0 - 777
\* The result container is the caller's: no kernel checks its length against
\* the column count.  It has an entry per column and one entry more.
ResultLen(cols) == cols + 1


VARIABLES input, numRows, numCols, X, Y, r, call, prod, pc, parts, inited,
          next, acc, live, rd, calls, rw, xw, touched

vars == <<input, numRows, numCols, X, Y, r, call, prod, pc, parts, inited,
          next, acc, live, rd, calls, rw, xw, touched>>

\* ------------------------------------------------------ index-width checks
\* numRows < INT_MAX && numRows * numCols < INT_MAX, in size_type; the
\* product is only evaluated when the first conjunct holds.
Fill_UseInt(nRows, nCols) ==
  nRows < INT_MAX /\ SizeMul(nRows, nCols) < INT_MAX

Nrm2_UseInt(nRows, nCols) ==
  nRows < INT_MAX /\ SizeMul(nRows, nCols) < INT_MAX

DotPair_UseInt(nRows, nCols) ==
  nRows < INT_MAX /\ SizeMul(nRows, nCols) < INT_MAX

\* The value numRows * numCols took in a check (the second conjunct is
\* evaluated only when the first holds); NotEvaluated otherwise.
NotEvaluated == 0 - 1
CheckProduct(nRows, nCols) ==
  IF nRows < INT_MAX THEN SizeMul(nRows, nCols) ELSE NotEvaluated

\* ------------------------------------------------------------ launch records
\* A launch names the functor instantiation handed to the parallel primitive:
\*   SizeType    the functor's index type ("int" or "size_type")
\*   range_type  the index type of the range policy
\*   work_end    the end of the range [0, work_end), in range_type
\*   value_count the functor's value_count (numCols_ for the fill functor)
\*   UNROLL      the compile-time column count of an unrolled functor
\*   xcol, ycol  the columns of the single-column views of V_Dot_Functor
\*   val         the fill value
Launch(op, via, functor, SizeType, range_type, work_end, value_count, UNROLL, xcol, ycol, val) ==
  [op |-> op, via |-> via, functor |-> functor, SizeType |-> SizeType,
   range_type |-> range_type, work_end |-> work_end,
   value_count |-> value_count, UNROLL |-> UNROLL,
   xcol |-> xcol, ycol |-> ycol, val |-> val]

NoCall == Launch("none", "none", "none", "none", "none", 0, 0, 0, 0, 0, 0)

\* A size_type value stored in a member of type SizeType.
Member(SizeType, v) == IF SizeType = "int" THEN ToInt(v) ELSE v

\* ------------------------------------------------------------- Dot_MV::dot
\* numVecs > 16: runtime-column-loop functor.
Dot_VectorBranch(nRows, nVecs) ==
  Launch("dot", "dispatch", "MV_Dot_Right_FunctorVector", "size_type",
         "size_type", nRows, nVecs, 0, 0, 0, 0)

\* Variant: a case instantiates the functor of the next trip count.
Dot_UnrollBranch_NextTripCount(nRows, nVecs, UNROLL) ==
  Launch("dot", "dispatch", "MV_Dot_Right_FunctorUnroll", "size_type",
         "size_type", nRows, nVecs, UNROLL + 1, 0, 0, 0)

\* case c: MV_Dot_Right_FunctorUnroll<RV, XMV, YMV, UNROLL> op (r, X, Y),
\* whose value_count is x.dimension_1 ().
Dot_UnrollBranch(nRows, nVecs, UNROLL) ==
  Launch("dot", "dispatch", "MV_Dot_Right_FunctorUnroll", "size_type",
         "size_type", nRows, nVecs, UNROLL, 0, 0, 0)

\* case 1: V_Dot_Functor on subview (r, 0), subview (X, ALL, 0),
\* subview (Y, ALL, 0).
Dot_SingleBranch(nRows) ==
  Launch("dot", "dispatch", "V_Dot_Functor", "size_type", "size_type",
         nRows, 1, 0, 0, 0, 0)

\* Variant: a column count no case matches falls to the runtime-column-loop
\* functor.
Dot_NoBranch_RuntimeLoop ==
  Launch("dot", "dispatch", "MV_Dot_Right_FunctorVector", "size_type",
         "size_type", 0, 0, 0, 0, 0, 0)

\* No case of the switch matches: nothing is launched.
Dot_NoBranch ==
  Launch("dot", "dispatch", "none", "none", "none", 0, 0, 0, 0, 0, 0)

Dot_MV_dot(nRows, nVecs) ==
  IF nVecs > UnrollMax THEN Dot_VectorBranch(nRows, nVecs)
  ELSE CASE nVecs = 16 -> Dot_UnrollBranch(nRows, nVecs, 16)
         [] nVecs = 15 -> Dot_UnrollBranch(nRows, nVecs, 15)
         [] nVecs = 14 -> Dot_UnrollBranch(nRows, nVecs, 14)
         [] nVecs = 13 -> Dot_UnrollBranch(nRows, nVecs, 13)
         [] nVecs = 12 -> Dot_UnrollBranch(nRows, nVecs, 12)
         [] nVecs = 11 -> Dot_UnrollBranch(nRows, nVecs, 11)
         [] nVecs = 10 -> Dot_UnrollBranch(nRows, nVecs, 10)
         [] nVecs = 9 -> Dot_UnrollBranch(nRows, nVecs, 9)
         [] nVecs = 8 -> Dot_UnrollBranch(nRows, nVecs, 8)
         [] nVecs = 7 -> Dot_UnrollBranch(nRows, nVecs, 7)
         [] nVecs = 6 -> Dot_UnrollBranch(nRows, nVecs, 6)
         [] nVecs = 5 -> Dot_UnrollBranch(nRows, nVecs, 5)
         [] nVecs = 4 -> Dot_UnrollBranch(nRows, nVecs, 4)
         [] nVecs = 3 -> Dot_UnrollBranch(nRows, nVecs, 3)
         [] nVecs = 2 -> Dot_UnrollBranch(nRows, nVecs, 2)
         [] nVecs = 1 -> Dot_SingleBranch(nRows)
         [] OTHER -> Dot_NoBranch

\* ------------------------------- Dot_MV::dot (r, X, X_col, Y, Y_col)
DotPair_NarrowBranch(nRows, X_col, Y_col) ==
  Launch("dotpair", "dispatch", "V_Dot_Functor", "int", "size_type",
         nRows, 1, 0, X_col, Y_col, 0)

\* Variant: the wide branch takes both views at X_col.
DotPair_WideBranch_SameColumn(nRows, X_col, Y_col) ==
  Launch("dotpair", "dispatch", "V_Dot_Functor", "size_type", "size_type",
         nRows, 1, 0, X_col, X_col, 0)

DotPair_WideBranch(nRows, X_col, Y_col) ==
  Launch("dotpair", "dispatch", "V_Dot_Functor", "size_type", "size_type",
         nRows, 1, 0, X_col, Y_col, 0)

Dot_MV_dot_pair(nRows, nCols, X_col, Y_col) ==
  IF DotPair_UseInt(nRows, nCols)
  THEN DotPair_NarrowBranch(nRows, X_col, Y_col)
  ELSE DotPair_WideBranch(nRows, X_col, Y_col)

\* ---------------------------------------------------- Nrm2_MV::nrm2_squared
\* Both branches build Kokkos::RangePolicy<execution_space, int> (0, numRows).
Nrm2_NarrowBranch(nRows, nCols) ==
  Launch("nrm2", "dispatch", "MV_Nrm2Squared_Right_FunctorVector", "int",
         "int", ToInt(nRows), Member("int", nCols), 0, 0, 0, 0)

Nrm2_WideBranch(nRows, nCols) ==
  Launch("nrm2", "dispatch", "MV_Nrm2Squared_Right_FunctorVector",
         "size_type", "int", ToInt(nRows), Member("size_type", nCols),
         0, 0, 0, 0)

Nrm2_MV_nrm2_squared(nRows, nCols) ==
  IF Nrm2_UseInt(nRows, nCols)
  THEN Nrm2_NarrowBranch(nRows, nCols)
  ELSE Nrm2_WideBranch(nRows, nCols)

\* ------------------------------------------------------------ Fill_MV::fill
Fill_NarrowBranch(nRows, nCols, val) ==
  Launch("fill", "dispatch", "MV_FillFunctor", "int", "int",
         ToInt(nRows), Member("int", nCols), 0, 0, 0, val)

\* Variant: the wide branch builds its range policy over int.
Fill_WideBranch_IntPolicy(nRows, nCols, val) ==
  Launch("fill", "dispatch", "MV_FillFunctor", "size_type", "int",
         ToInt(nRows), Member("size_type", nCols), 0, 0, 0, val)

Fill_WideBranch(nRows, nCols, val) ==
  Launch("fill", "dispatch", "MV_FillFunctor", "size_type", "size_type",
         nRows, Member("size_type", nCols), 0, 0, 0, val)

Fill_MV_fill(nRows, nCols, val) ==
  IF Fill_UseInt(nRows, nCols)
  THEN Fill_NarrowBranch(nRows, nCols, val)
  ELSE Fill_WideBranch(nRows, nCols, val)

\* ------------------------------------------------------------ V_Dot_Functor
\* Scalar reduction state: one slot.
\* Variant: the second view is read at the first view's column.
V_Dot_Functor_contribute_SameColumn(f, i, sum, m_x, m_y) ==
  [k \in DOMAIN sum |-> sum[k] + IPT_dot(m_x[i][f.xcol], m_y[i][f.xcol])]

V_Dot_Functor_contribute(f, i, sum, m_x, m_y) ==
  [k \in DOMAIN sum |-> sum[k] + IPT_dot(m_x[i][f.xcol], m_y[i][f.ycol])]

V_Dot_Functor_init(f, update) == [k \in DOMAIN update |-> AT_zero]

V_Dot_Functor_join(f, update, source) ==
  [k \in DOMAIN update |-> update[k] + source[k]]

\* m_r() = dst, m_r being subview (r, 0).
V_Dot_Functor_final(f, dst, res) ==
  [k \in DOMAIN res |-> IF k = 0 THEN dst[0] ELSE res[k]]

V_Dot_Functor_final_writes(f) == {0}

\* value_type is a scalar: operator(), init, join and final access the one
\* slot.
V_Dot_Functor_slots(f) == {0}

V_Dot_Functor_reads(f) == {<<"X", f.xcol>>, <<"Y", f.ycol>>}

\* ----------------------------------------------- MV_Dot_Right_FunctorVector
\* Every loop runs k = 0 .. numVecs - 1 with numVecs = value_count.
MV_Dot_Right_FunctorVector_contribute(f, i, sum, m_x, m_y) ==
  [k \in DOMAIN sum |->
     IF k < f.value_count
     THEN sum[k] + IPT_dot(m_x[i][k], m_y[i][k])
     ELSE sum[k]]

MV_Dot_Right_FunctorVector_init(f, update) ==
  [k \in DOMAIN update |-> IF k < f.value_count THEN AT_zero ELSE update[k]]

\* Variant: join subtracts the source, update[k] -= source[k].
MV_Dot_Right_FunctorVector_join_Subtract(f, update, source) ==
  [k \in DOMAIN update |->
     IF k < f.value_count THEN update[k] - source[k] ELSE update[k]]

MV_Dot_Right_FunctorVector_join(f, update, source) ==
  [k \in DOMAIN update |->
     IF k < f.value_count THEN update[k] + source[k] ELSE update[k]]

MV_Dot_Right_FunctorVector_final(f, dst, res) ==
  [k \in DOMAIN res |-> IF k < f.value_count THEN dst[k] ELSE res[k]]

MV_Dot_Right_FunctorVector_final_writes(f) == 0 .. f.value_count - 1

\* The slots sum[k], update[k], source[k], dst[k] the four loops access.
MV_Dot_Right_FunctorVector_slots(f) == 0 .. f.value_count - 1

MV_Dot_Right_FunctorVector_reads(f) ==
  {<<m, k>> : m \in {"X", "Y"}, k \in 0 .. f.value_count - 1}

\* ----------------------------------------------- MV_Dot_Right_FunctorUnroll
\* Every loop runs k = 0 .. UNROLL - 1.
\* Variant: the unrolled loop stops one column short.
MV_Dot_Right_FunctorUnroll_contribute_Short(f, i, sum, m_x, m_y) ==
  [k \in DOMAIN sum |->
     IF k < f.UNROLL - 1
     THEN sum[k] + IPT_dot(m_x[i][k], m_y[i][k])
     ELSE sum[k]]

MV_Dot_Right_FunctorUnroll_contribute(f, i, sum, m_x, m_y) ==
  [k \in DOMAIN sum |->
     IF k < f.UNROLL THEN sum[k] + IPT_dot(m_x[i][k], m_y[i][k]) ELSE sum[k]]

MV_Dot_Right_FunctorUnroll_init(f, update) ==
  [k \in DOMAIN update |-> IF k < f.UNROLL THEN AT_zero ELSE update[k]]

\* Variant: join assigns the source instead of adding it.
MV_Dot_Right_FunctorUnroll_join_Assign(f, update, source) ==
  [k \in DOMAIN update |-> IF k < f.UNROLL THEN source[k] ELSE update[k]]

MV_Dot_Right_FunctorUnroll_join(f, update, source) ==
  [k \in DOMAIN update |->
     IF k < f.UNROLL THEN update[k] + source[k] ELSE update[k]]

MV_Dot_Right_FunctorUnroll_final(f, dst, res) ==
  [k \in DOMAIN res |-> IF k < f.UNROLL THEN dst[k] ELSE res[k]]

MV_Dot_Right_FunctorUnroll_final_writes(f) == 0 .. f.UNROLL - 1

\* The slots the four loops for (int k = 0; k < UNROLL; ++k) access.
MV_Dot_Right_FunctorUnroll_slots(f) == 0 .. f.UNROLL - 1

MV_Dot_Right_FunctorUnroll_reads(f) ==
  {<<m, k>> : m \in {"X", "Y"}, k \in 0 .. f.UNROLL - 1}

\* --------------------------------------- MV_Nrm2Squared_Right_FunctorVector
MV_Nrm2Squared_Right_FunctorVector_contribute(f, i, sum, m_x) ==
  [j \in DOMAIN sum |->
     IF j < f.value_count
     THEN LET tmp == IPT_norm(m_x[i][j]) IN sum[j] + tmp * tmp
     ELSE sum[j]]

MV_Nrm2Squared_Right_FunctorVector_init(f, update) ==
  [j \in DOMAIN update |-> IF j < f.value_count THEN AT_zero ELSE update[j]]

MV_Nrm2Squared_Right_FunctorVector_join(f, update, source) ==
  [j \in DOMAIN update |->
     IF j < f.value_count THEN update[j] + source[j] ELSE update[j]]

MV_Nrm2Squared_Right_FunctorVector_final(f, dst, res) ==
  [j \in DOMAIN res |-> IF j < f.value_count THEN dst[j] ELSE res[j]]

MV_Nrm2Squared_Right_FunctorVector_final_writes(f) == 0 .. f.value_count - 1

MV_Nrm2Squared_Right_FunctorVector_slots(f) == 0 .. f.value_count - 1

MV_Nrm2Squared_Right_FunctorVector_reads(f) ==
  {<<"X", j>> : j \in 0 .. f.value_count - 1}

\* ----------------------------------------------------------- MV_FillFunctor
\* for (j = 0; j < numCols_; ++j) X_(i,j) = val_
\* The elements one invocation assigns.
\* Variant: the two indices are swapped, X_(j,i) = val_.
MV_FillFunctor_writes_Swapped(f, i) == {<<j, i>> : j \in 0 .. f.value_count - 1}

MV_FillFunctor_writes(f, i) == {<<i, j>> : j \in 0 .. f.value_count - 1}

MV_FillFunctor_apply(f, i, M) ==
  [a \in DOMAIN M |->
     [b \in DOMAIN M[a] |->
        IF <<a, b>> \in MV_FillFunctor_writes(f, i) THEN f.val ELSE M[a][b]]]

\* ------------------------------------------------- functor of a launch
Functor_contribute(f, i, sum, m_x, m_y) ==
  CASE f.functor = "V_Dot_Functor" ->
         V_Dot_Functor_contribute(f, i, sum, m_x, m_y)
    [] f.functor = "MV_Dot_Right_FunctorVector" ->
         MV_Dot_Right_FunctorVector_contribute(f, i, sum, m_x, m_y)
    [] f.functor = "MV_Dot_Right_FunctorUnroll" ->
         MV_Dot_Right_FunctorUnroll_contribute(f, i, sum, m_x, m_y)
    [] OTHER -> MV_Nrm2Squared_Right_FunctorVector_contribute(f, i, sum, m_x)

Functor_init(f, update) ==
  CASE f.functor = "V_Dot_Functor" -> V_Dot_Functor_init(f, update)
    [] f.functor = "MV_Dot_Right_FunctorVector" ->
         MV_Dot_Right_FunctorVector_init(f, update)
    [] f.functor = "MV_Dot_Right_FunctorUnroll" ->
         MV_Dot_Right_FunctorUnroll_init(f, update)
    [] OTHER -> MV_Nrm2Squared_Right_FunctorVector_init(f, update)

Functor_join(f, update, source) ==
  CASE f.functor = "V_Dot_Functor" -> V_Dot_Functor_join(f, update, source)
    [] f.functor = "MV_Dot_Right_FunctorVector" ->
         MV_Dot_Right_FunctorVector_join(f, update, source)
    [] f.functor = "MV_Dot_Right_FunctorUnroll" ->
         MV_Dot_Right_FunctorUnroll_join(f, update, source)
    [] OTHER -> MV_Nrm2Squared_Right_FunctorVector_join(f, update, source)

Functor_final(f, dst, res) ==
  CASE f.functor = "V_Dot_Functor" -> V_Dot_Functor_final(f, dst, res)
    [] f.functor = "MV_Dot_Right_FunctorVector" ->
         MV_Dot_Right_FunctorVector_final(f, dst, res)
    [] f.functor = "MV_Dot_Right_FunctorUnroll" ->
         MV_Dot_Right_FunctorUnroll_final(f, dst, res)
    [] OTHER -> MV_Nrm2Squared_Right_FunctorVector_final(f, dst, res)

Functor_final_writes(f) ==
  CASE f.functor = "V_Dot_Functor" -> V_Dot_Functor_final_writes(f)
    [] f.functor = "MV_Dot_Right_FunctorVector" ->
         MV_Dot_Right_FunctorVector_final_writes(f)
    [] f.functor = "MV_Dot_Right_FunctorUnroll" ->
         MV_Dot_Right_FunctorUnroll_final_writes(f)
    [] OTHER -> MV_Nrm2Squared_Right_FunctorVector_final_writes(f)

Functor_slots(f) ==
  CASE f.functor = "V_Dot_Functor" -> V_Dot_Functor_slots(f)
    [] f.functor = "MV_Dot_Right_FunctorVector" ->
         MV_Dot_Right_FunctorVector_slots(f)
    [] f.functor = "MV_Dot_Right_FunctorUnroll" ->
         MV_Dot_Right_FunctorUnroll_slots(f)
    [] OTHER -> MV_Nrm2Squared_Right_FunctorVector_slots(f)

Functor_reads(f) ==
  CASE f.functor = "V_Dot_Functor" -> V_Dot_Functor_reads(f)
    [] f.functor = "MV_Dot_Right_FunctorVector" ->
         MV_Dot_Right_FunctorVector_reads(f)
    [] f.functor = "MV_Dot_Right_FunctorUnroll" ->
         MV_Dot_Right_FunctorUnroll_reads(f)
    [] OTHER -> MV_Nrm2Squared_Right_FunctorVector_reads(f)

\* Slots of one partition's reduction state: value_count for an array
\* value_type, one for the scalar value_type of V_Dot_Functor.  A negative
\* value_count leaves no slot: whatever the primitive then does, the functor's
\* loops over k < value_count touch nothing.
SlotCount(f) ==
  IF f.functor = "V_Dot_Functor" THEN 1 ELSE Max0(f.value_count)

\* Kokkos::RangePolicy (0, work_end): empty when work_end is not above 0.
RangeEnd(f) == Max0(f.work_end)

\* The row index as the functor's operator() receives it.
RowIndex(f, i) == Member(f.SizeType, i)

\* ------------------------------------------------------------------- state
NoAcc == [w \in {} |-> 0]

\* What has been invoked so far in the call: the number of partitions the
\* primitive made and the number of init, join and final invocations.
NoCalls == [parts |-> 0, init |-> 0, join |-> 0, final |-> 0]

\* How often each result entry / each element of X has been assigned;
\* touched holds the indices of the accumulator slots accessed so far.
NoWrites(res) == [k \in DOMAIN res |-> 0]
NoFills(M) == [a \in DOMAIN M |-> [b \in DOMAIN M[a] |-> 0]]

\* One behaviour is one call on one input: X and Y of one shape, and a
\* result container of ResultLen entries holding Garbage.
Init ==
  \E in \in Inputs :
    /\ input = in
    /\ numRows = in.rows
    /\ numCols = in.cols
    /\ X = Mat(in.xf, in.rows, in.cols)
    /\ Y = Mat(in.yf, in.rows, in.cols)
    /\ r = [k \in 0 .. ResultLen(in.cols) - 1 |-> Garbage]
    /\ call = NoCall
    /\ prod = NotEvaluated
    /\ pc = "idle"
    /\ parts = 0
    /\ inited = {}
    /\ next = 0
    /\ acc = NoAcc
    /\ live = {}
    /\ rd = {}
    /\ calls = NoCalls
    /\ rw = NoWrites(r)
    /\ xw = NoFills(X)
    /\ touched = {}

\* The parallel primitive takes a launch: it splits the range among 1 ..
\* NumWorkers partitions and allocates one reduction state per partition.
Start(f, p) ==
  /\ pc = "idle"
  /\ call' = f
  /\ prod' = p
  /\ rd' = {}
  /\ next' = 0
  /\ inited' = {}
  /\ UNCHANGED <<input, numRows, numCols, X, Y, r, rw, xw, touched>>
  /\ IF f.functor = "none"
     THEN /\ pc' = "done"
          /\ parts' = 0
          /\ acc' = NoAcc
          /\ live' = {}
          /\ calls' = NoCalls
     ELSE \E n \in 1 .. NumWorkers :
            /\ parts' = n
            /\ calls' = [NoCalls EXCEPT !.parts = n]
            /\ live' = 1 .. n
            /\ IF f.functor = "MV_FillFunctor"
               THEN /\ pc' = "for"
                    /\ acc' = NoAcc
               ELSE /\ pc' = "reduce"
                    /\ acc' = [w \in 1 .. n |->
                                 [k \in 0 .. SlotCount(f) - 1 |-> Garbage]]

PairCols == {c \in {0, numCols - 1} : 0 <= c /\ c < numCols}

\* dot (r, X, Y)
Call_dot == Start(Dot_MV_dot(numRows, numCols), NotEvaluated)

\* dot (r, X, X_col, Y, Y_col)
Call_dot_pair ==
  \E X_col \in PairCols, Y_col \in PairCols :
    Start(Dot_MV_dot_pair(numRows, numCols, X_col, Y_col),
          CheckProduct(numRows, numCols))

\* nrm2_squared (r, X)
Call_nrm2_squared ==
  Start(Nrm2_MV_nrm2_squared(numRows, numCols), CheckProduct(numRows, numCols))

\* fill (X, val)
Call_fill ==
  \E val \in FillValues :
    Start(Fill_MV_fill(numRows, numCols, val), CheckProduct(numRows, numCols))

\* The runtime-column-loop functor handed to the primitive whatever the
\* column count, and the wide-index branches taken whatever the shape.
Run_dot_vector ==
  Start([Dot_VectorBranch(numRows, numCols) EXCEPT !.via = "direct"],
        NotEvaluated)

Run_dot_pair_wide ==
  \E X_col \in PairCols, Y_col \in PairCols :
    Start([DotPair_WideBranch(numRows, X_col, Y_col) EXCEPT !.via = "direct"],
          NotEvaluated)

Run_nrm2_wide ==
  Start([Nrm2_WideBranch(numRows, numCols) EXCEPT !.via = "direct"],
        NotEvaluated)

Run_fill_wide ==
  \E val \in FillValues :
    Start([Fill_WideBranch(numRows, numCols, val) EXCEPT !.via = "direct"],
          NotEvaluated)

\* init on the reduction state of partition w.
InitPartition ==
  \E w \in 1 .. parts :
    /\ pc = "reduce"
    /\ w \notin inited
    /\ inited' = inited \cup {w}
    /\ acc' = [acc EXCEPT ![w] = Functor_init(call, acc[w])]
    /\ calls' = [calls EXCEPT !.init = @ + 1]
    /\ UNCHANGED <<input, numRows, numCols, X, Y, r, call, prod, pc, parts, next,
                   live, rd, rw, xw>>
    /\ touched' = touched \cup Functor_slots(call)

\* operator() (i, sum): partition w takes the next row of the range.
Contribute ==
  \E w \in 1 .. parts :
    /\ pc = "reduce"
    /\ w \in inited
    /\ next < RangeEnd(call)
    /\ acc' = [acc EXCEPT
                 ![w] = Functor_contribute(call, RowIndex(call, next), acc[w],
                                           X, Y)]
    /\ rd' = rd \cup Functor_reads(call)
    /\ next' = next + 1
    /\ UNCHANGED <<input, numRows, numCols, X, Y, r, call, prod, pc, parts, inited,
                   live, calls, rw, xw>>
    /\ touched' = touched \cup Functor_slots(call)

\* join (update, source): the state of partition b is merged into that of a.
Join ==
  \E a \in live, b \in live :
    /\ pc = "reduce"
    /\ a # b
    /\ inited = 1 .. parts
    /\ next = RangeEnd(call)
    /\ acc' = [acc EXCEPT ![a] = Functor_join(call, acc[a], acc[b])]
    /\ live' = live \ {b}
    /\ calls' = [calls EXCEPT !.join = @ + 1]
    /\ UNCHANGED <<input, numRows, numCols, X, Y, r, call, prod, pc, parts, inited,
                   next, rd, rw, xw>>
    /\ touched' = touched \cup Functor_slots(call)

\* final (dst) on the one remaining state.
Final ==
  \E a \in live :
    /\ pc = "reduce"
    /\ live = {a}
    /\ inited = 1 .. parts
    /\ next = RangeEnd(call)
    /\ r' = Functor_final(call, acc[a], r)
    /\ rw' = [k \in DOMAIN rw |->
               IF k \in Functor_final_writes(call) THEN rw[k] + 1 ELSE rw[k]]
    /\ calls' = [calls EXCEPT !.final = @ + 1]
    /\ pc' = "done"
    /\ UNCHANGED <<input, numRows, numCols, X, Y, call, prod, parts, inited, next,
                   acc, live, rd, xw>>
    /\ touched' = touched \cup Functor_slots(call)

\* operator() (i) of the fill functor on the next row of the range.
FillRow ==
  /\ pc = "for"
  /\ next < RangeEnd(call)
  /\ X' = MV_FillFunctor_apply(call, RowIndex(call, next), X)
  /\ xw' = [a \in DOMAIN xw |->
             [b \in DOMAIN xw[a] |->
                IF <<a, b>> \in MV_FillFunctor_writes(call, RowIndex(call, next))
                THEN xw[a][b] + 1 ELSE xw[a][b]]]
  /\ next' = next + 1
  /\ UNCHANGED <<input, numRows, numCols, Y, r, call, prod, pc, parts, inited, acc,
                 live, rd, calls, rw,
                 touched>>

FillEnd ==
  /\ pc = "for"
  /\ next = RangeEnd(call)
  /\ pc' = "done"
  /\ UNCHANGED <<input, numRows, numCols, X, Y, r, call, prod, parts, inited, next,
                 acc, live, rd, calls, rw, xw,
                 touched>>

\* Variant: the call returns without waiting for the primitive.
Return_Early ==
  /\ pc \in {"reduce", "for", "done"}
  /\ pc' = "returned"
  /\ parts' = 0
  /\ inited' = {}
  /\ acc' = NoAcc
  /\ live' = {}
  /\ UNCHANGED <<input, numRows, numCols, X, Y, r, call, prod, next, rd, calls,
                 rw, xw,
                 touched>>

\* The call returns to its caller; the reduction states are discarded.
Return ==
  /\ pc = "done"
  /\ pc' = "returned"
  /\ parts' = 0
  /\ inited' = {}
  /\ acc' = NoAcc
  /\ live' = {}
  /\ UNCHANGED <<input, numRows, numCols, X, Y, r, call, prod, next, rd, calls,
                 rw, xw,
                 touched>>

Next ==
  \/ Call_dot
  \/ Call_dot_pair
  \/ Call_nrm2_squared
  \/ Call_fill
  \/ Run_dot_vector
  \/ Run_dot_pair_wide
  \/ Run_nrm2_wide
  \/ Run_fill_wide
  \/ InitPartition
  \/ Contribute
  \/ Join
  \/ Final
  \/ FillRow
  \/ FillEnd
  \/ Return

Spec == Init /\ [][Next]_vars

\* The inputs of the fair executions: every input but those with 3 .. 15
\* columns, which take the same unrolled branch of dot as 2 and 16 columns.
InitFair == Init /\ input.cols \notin 3 .. UnrollMax - 1

\* The workers of the primitive are scheduled fairly and the caller blocks in
\* the primitive: a partition that can initialise, take a row, be merged or
\* be finalised eventually does, and a finished call returns.  Making a call
\* is left to the client.
FairSpec ==
  /\ InitFair
  /\ [][Next]_vars
  /\ WF_vars(InitPartition)
  /\ WF_vars(Contribute)
  /\ WF_vars(Join)
  /\ WF_vars(Final)
  /\ WF_vars(FillRow)
  /\ WF_vars(FillEnd)
  /\ WF_vars(Return)

\* ------------------------------------------ the index selection on its own
\* The three dispatchers' choice of index type for every numRows and numCols
\* the size_type can hold, without data.
InitIdx ==
  \E nRows \in 0 .. SizeMod - 1, nCols \in 0 .. SizeMod - 1 :
    /\ input = [rows |-> nRows, cols |-> nCols, xf |-> "none", yf |-> "none"]
    /\ numRows = nRows
    /\ numCols = nCols
    /\ X = Mat("none", 0, 0)
    /\ Y = Mat("none", 0, 0)
    /\ r = [k \in {} |-> Garbage]
    /\ call = NoCall
    /\ prod = NotEvaluated
    /\ pc = "idle"
    /\ parts = 0
    /\ inited = {}
    /\ next = 0
    /\ acc = NoAcc
    /\ live = {}
    /\ rd = {}
    /\ calls = NoCalls
    /\ rw = NoWrites(r)
    /\ xw = NoFills(X)
    /\ touched = {}

Select(f, p) ==
  /\ pc = "idle"
  /\ call' = f
  /\ prod' = p
  /\ pc' = "selected"
  /\ UNCHANGED <<input, numRows, numCols, X, Y, r, parts, inited, next, acc,
                 live, rd, calls, rw, xw,
                 touched>>

Select_fill ==
  Select(Fill_MV_fill(numRows, numCols, 0), CheckProduct(numRows, numCols))

Select_nrm2_squared ==
  Select(Nrm2_MV_nrm2_squared(numRows, numCols),
         CheckProduct(numRows, numCols))

Select_dot_pair ==
  Select(Dot_MV_dot_pair(numRows, numCols, 0, 0),
         CheckProduct(numRows, numCols))

NextIdx ==
  \/ Select_fill
  \/ Select_nrm2_squared
  \/ Select_dot_pair

SpecIdx == InitIdx /\ [][NextIdx]_vars

\* ------------------------------------------------------------- references
\* The sequential sums the results are compared with.
RECURSIVE SeqDot(_, _, _, _, _)
SeqDot(m_x, xc, m_y, yc, n) ==
  IF n = 0 THEN 0
  ELSE SeqDot(m_x, xc, m_y, yc, n - 1) + m_x[n - 1][xc] * m_y[n - 1][yc]

RECURSIVE SeqNrm2(_, _, _)
SeqNrm2(m_x, c, n) ==
  IF n = 0 THEN 0 ELSE SeqNrm2(m_x, c, n - 1) + m_x[n - 1][c] * m_x[n - 1][c]

\* A launch executed by one partition, rows in order.
RECURSIVE SerialLoop(_, _, _, _, _)
SerialLoop(f, i, sum, m_x, m_y) ==
  IF i >= RangeEnd(f) THEN sum
  ELSE SerialLoop(f, i + 1,
                  Functor_contribute(f, RowIndex(f, i), sum, m_x, m_y),
                  m_x, m_y)

SerialReduce(f, m_x, m_y, res) ==
  IF f.functor = "none" THEN res
  ELSE Functor_final(
         f,
         SerialLoop(f, 0,
                    Functor_init(f, [k \in 0 .. SlotCount(f) - 1 |-> Garbage]),
                    m_x, m_y),
         res)

RECURSIVE SerialFor(_, _, _)
SerialFor(f, i, M) ==
  IF i >= RangeEnd(f) THEN M
  ELSE SerialFor(f, i + 1, MV_FillFunctor_apply(f, RowIndex(f, i), M))

\* The inputs as they were when the call was made.
X0 == Mat(input.xf, input.rows, input.cols)
Y0 == Mat(input.yf, input.rows, input.cols)
R0 == [k \in 0 .. ResultLen(input.cols) - 1 |-> Garbage]

Finished == pc \in {"done", "returned"}
Dispatched(op) == Finished /\ call.op = op /\ call.via = "dispatch"
Direct(op) == Finished /\ call.op = op /\ call.via = "direct"

\* ------------------------------------------------------------------ claims

\* C1: after dot (result, X, Y) returns, result[k] is the sequential sum over
\* the rows of innerProduct (X[i,k], Y[i,k]) for every column k, for every
\* rows >= 0 and columns >= 1 and every split of the rows among partitions.
C1_DotIsColumnwiseSum ==
  (Dispatched("dot") /\ numCols >= 1) =>
    \A k \in 0 .. numCols - 1 : r[k] = SeqDot(X0, k, Y0, k, numRows)

\* Two partitions have produced [6, 10] for X = [[1,2],[3,4],[5,6]],
\* Y = [[1,0],[0,1],[1,1]].
C1_Witness ==
  /\ pc = "done"
  /\ call.op = "dot"
  /\ call.via = "dispatch"
  /\ parts = 2
  /\ X = [i \in 0 .. 2 |-> [k \in 0 .. 1 |-> 2 * i + k + 1]]
  /\ r[0] = 6
  /\ r[1] = 10

\* C2: after nrm2_squared (result, X) returns, result[k] is the sum over the
\* rows of squaredNorm (X[i,k]) for every column k, for every rows >= 0 and
\* columns >= 1, on the narrow-index and on the wide-index branch.
C2_Nrm2IsColumnwiseSum ==
  (Dispatched("nrm2") /\ numCols >= 1) =>
    \A k \in 0 .. numCols - 1 : r[k] = SeqNrm2(X0, k, numRows)

\* C3: after fill (X, v) returns, every element of X equals v, for every
\* shape, on the narrow-index and on the wide-index branch.
C3_FillSetsEveryElement ==
  Dispatched("fill") =>
    \A i \in 0 .. numRows - 1 : \A j \in 0 .. numCols - 1 : X[i][j] = call.val

\* A fill on the wide-index branch, the row count above INT_MAX, has set the
\* last row.
C3_Witness ==
  /\ Dispatched("fill")
  /\ call.SizeType = "size_type"
  /\ numRows > INT_MAX
  /\ call.val = 5
  /\ X[numRows - 1][0] = 5
  /\ X0[numRows - 1][0] # 5

\* C4: after dot (result, X, xCol, Y, yCol) returns, result entry 0 is the
\* sequential sum over the rows of innerProduct (X[i,xCol], Y[i,yCol]); only
\* column xCol of X and column yCol of Y were read and only result entry 0
\* was written.
C4_DotPairIsSum ==
  Dispatched("dotpair") =>
    /\ r[0] = SeqDot(X0, call.xcol, Y0, call.ycol, numRows)
    /\ \A k \in 1 .. numCols - 1 : r[k] = R0[k]
    /\ rd \subseteq {<<"X", call.xcol>>, <<"Y", call.ycol>>}

\* A single-pair dot of the last column of X with the first column of Y, on
\* three rows and two partitions, has returned a non-zero sum.
C4_Witness ==
  /\ Dispatched("dotpair")
  /\ numRows = 3
  /\ numCols >= 2
  /\ call.xcol = numCols - 1
  /\ call.ycol = 0
  /\ rd = {<<"X", numCols - 1>>, <<"Y", 0>>}
  /\ r[0] # 0
  /\ r[0] # SeqDot(X0, 0, Y0, 0, numRows)

\* C5: the result of nrm2_squared (result, X) equals, column by column, the
\* result of dot (result, X, X).
C5_Nrm2EqualsDotXX ==
  Dispatched("nrm2") =>
    r = SerialReduce(Dot_MV_dot(numRows, numCols), X0, X0, R0)

\* C6: with no rows and at least one column, dot, the single-pair dot and
\* nrm2_squared write the additive zero into every result entry they own, and
\* fill writes no element.
C6_ZeroRowsGiveZero ==
  (Finished /\ call.via = "dispatch" /\ numRows = 0 /\ numCols >= 1) =>
    /\ call.op \in {"dot", "nrm2"} =>
         \A k \in 0 .. numCols - 1 : r[k] = AT_zero
    /\ call.op = "dotpair" => r[0] = AT_zero
    /\ call.op = "fill" => X = X0

\* C7: in fill, nrm2_squared and the single-pair dot, whenever rows or the
\* true product rows * columns is >= INT_MAX, the wide index type is
\* selected, for every rows and columns the size type can hold.
C7_NarrowOnlyWhenItFits ==
  (pc = "selected" /\ (numRows >= INT_MAX \/ numRows * numCols >= INT_MAX)) =>
    call.SizeType = "size_type"

\* C8: the product rows * columns of the index-width check, evaluated in the
\* size type, never wraps around, for every rows and columns the size type
\* can hold.
C8_CheckNeverWraps ==
  (pc = "selected" /\ prod # NotEvaluated) => prod = numRows * numCols

\* C9: for every column count 1 .. 16 the reduction with the unrolled functor
\* of that trip count (the single-vector functor for 1) and the reduction
\* with the runtime-column-loop functor give the same per-column results on
\* the same input.
C9_UnrolledMatchesRuntimeLoop ==
  /\ (Dispatched("dot") /\ numCols \in 1 .. UnrollMax) =>
       r = SerialReduce(Dot_VectorBranch(numRows, numCols), X0, Y0, R0)
  /\ (Direct("dot") /\ numCols \in 1 .. UnrollMax) =>
       r = SerialReduce(Dot_MV_dot(numRows, numCols), X0, Y0, R0)

\* The unrolled functor of trip count 16 has reduced three rows on two
\* partitions.
C9_Witness ==
  /\ pc = "done"
  /\ call.op = "dot"
  /\ call.functor = "MV_Dot_Right_FunctorUnroll"
  /\ call.UNROLL = UnrollMax
  /\ numRows = 3
  /\ parts = 2
  /\ r[UnrollMax - 1] = SeqDot(X0, UnrollMax - 1, Y0, UnrollMax - 1, 3)
  /\ r[UnrollMax - 1] # 0

\* Every index quantity of the input fits the narrow type.
SmallEnough ==
  /\ numRows < INT_MAX
  /\ numCols < INT_MAX
  /\ numRows * numCols < INT_MAX

\* C10: for an input small enough for both index types, fill, nrm2_squared
\* and the single-pair dot leave the same X / result through the wide-index
\* branch as through the narrow-index branch.
C10_WideMatchesNarrow ==
  /\ (Direct("fill") /\ SmallEnough) =>
       X = SerialFor(Fill_NarrowBranch(numRows, numCols, call.val), 0, X0)
  /\ (Dispatched("fill") /\ SmallEnough) =>
       X = SerialFor(Fill_WideBranch(numRows, numCols, call.val), 0, X0)
  /\ (Direct("nrm2") /\ SmallEnough) =>
       r = SerialReduce(Nrm2_NarrowBranch(numRows, numCols), X0, Y0, R0)
  /\ (Dispatched("nrm2") /\ SmallEnough) =>
       r = SerialReduce(Nrm2_WideBranch(numRows, numCols), X0, Y0, R0)
  /\ (Direct("dotpair") /\ SmallEnough) =>
       r = SerialReduce(
             DotPair_NarrowBranch(numRows, call.xcol, call.ycol), X0, Y0, R0)
  /\ (Dispatched("dotpair") /\ SmallEnough) =>
       r = SerialReduce(
             DotPair_WideBranch(numRows, call.xcol, call.ycol), X0, Y0, R0)

\* The wide-index branch of the single-pair dot has run on a three-row input
\* that the dispatcher sends to the narrow branch.
C10_Witness ==
  /\ Direct("dotpair")
  /\ SmallEnough
  /\ DotPair_UseInt(numRows, numCols)
  /\ call.SizeType = "size_type"
  /\ numRows = 3
  /\ call.xcol # call.ycol
  /\ r[0] = SeqDot(X0, call.xcol, Y0, call.ycol, 3)
  /\ r[0] # 0

\* A call has been made and has not returned yet.
Invoked == pc \in {"reduce", "for", "done"}

\* Every row of the launched range has been processed and, in a reduction,
\* every partition state has been initialised and merged and the combined
\* state finalised.
AllWorkDone ==
  /\ next = RangeEnd(call)
  /\ call.functor \notin {"none", "MV_FillFunctor"} =>
       /\ calls.init = calls.parts
       /\ calls.join = calls.parts - 1
       /\ calls.final = 1

\* C11: under fair scheduling of the workers every call of dot, single-pair
\* dot, nrm2_squared and fill eventually returns, and a call has returned only
\* when every row of its range has been processed and (in a reduction) all
\* partition states have been merged and finalised.
C11_CallsReturnAfterAllWork ==
  /\ Invoked ~> (pc = "returned")
  /\ [](pc = "returned" => AllWorkDone)

\* A nrm2_squared call on three rows, split into two partitions, has returned
\* after two inits, three rows, one join and one final.
C11_Witness ==
  /\ pc = "returned"
  /\ call.op = "nrm2"
  /\ call.via = "dispatch"
  /\ numRows = 3
  /\ next = 3
  /\ calls = [parts |-> 2, init |-> 2, join |-> 1, final |-> 1]

\* The result entries a kernel owns: every column's entry for dot and
\* nrm2_squared, entry 0 for the single-pair dot.
ResultEntries ==
  IF call.op = "dotpair" THEN {0} ELSE 0 .. numCols - 1

\* A result container of the same length holding something else.
R0_Other == [k \in DOMAIN R0 |-> Garbage + 1]

\* C12: during and after a call of dot, single-pair dot or nrm2_squared X and
\* Y are unchanged, no result entry is read, and the result entries after
\* the call are what the same call leaves on a result container that held
\* other contents before.
C12_SourcesReadOnlyResultWriteOnly ==
  (call.via = "dispatch" /\ call.op \in {"dot", "dotpair", "nrm2"}) =>
    /\ X = X0
    /\ Y = Y0
    /\ \A e \in rd : e[1] \in {"X", "Y"}
    /\ Finished =>
         \A k \in ResultEntries :
           r[k] = SerialReduce(call, X0, Y0, R0_Other)[k]

\* The functors by strategy.
RuntimeLoopFunctors ==
  {"MV_Dot_Right_FunctorVector", "MV_Nrm2Squared_Right_FunctorVector"}
UnrolledFunctors == {"MV_Dot_Right_FunctorUnroll"}
SingleVectorFunctors == {"V_Dot_Functor"}

\* C13: dot (result, X, Y) and nrm2_squared (result, X) both choose the
\* functor from the column count: more than 16 columns the runtime-column-
\* loop functor, c in 2 .. 16 columns the unrolled functor of trip count c,
\* one column the single-vector functor on column 0.
C13_StrategyFollowsColumnCount ==
  (Finished /\ call.via = "dispatch" /\ call.op \in {"dot", "nrm2"}) =>
    /\ numCols > UnrollMax => call.functor \in RuntimeLoopFunctors
    /\ numCols \in 2 .. UnrollMax =>
         call.functor \in UnrolledFunctors /\ call.UNROLL = numCols
    /\ numCols = 1 =>
         /\ call.functor \in SingleVectorFunctors
         /\ call.xcol = 0
         /\ call.ycol = 0

\* rows and rows * columns, as numbers, fit the narrow index type.
FitsInt(nRows, nCols) == nRows < INT_MAX /\ nRows * nCols < INT_MAX

\* C14: in every column-count branch of dot (result, X, Y) the reduction
\* uses the narrow index type when rows and rows * columns fit it and the
\* wide type otherwise.
C14_DotAppliesIndexPolicy ==
  (Dispatched("dot") /\ numCols >= 1) =>
    call.SizeType = IF FitsInt(numRows, numCols) THEN "int" ELSE "size_type"

\* C15: the single-pair dot decides the index width with the column count
\* forced to 1: it takes the narrow type exactly when rows fits it, whatever
\* the column count of X.
C15_DotPairCheckUsesOneColumn ==
  Dispatched("dotpair") => (call.SizeType = "int" <=> FitsInt(numRows, 1))

\* How often row i has been handed to the functor so far.
Visits(i) == Cardinality({j \in 0 .. next - 1 : RowIndex(call, j) = i})

\* C16: when fill, nrm2_squared or the single-pair dot takes the wide-index
\* branch, the range is [0, rows) in the wide type and the functor's row
\* index is wide: every row, also with rows >= INT_MAX, is visited once.
C16_WideBranchKeepsWideRange ==
  (/\ Finished
   /\ call.via = "dispatch"
   /\ call.op \in {"fill", "nrm2", "dotpair"}
   /\ call.SizeType = "size_type") =>
    /\ call.range_type = "size_type"
    /\ call.work_end = numRows
    /\ \A i \in 0 .. numRows - 1 : Visits(i) = 1

\* A reduction (dot, single-pair dot, nrm2_squared) has been launched.
Reducing ==
  /\ call.via = "dispatch"
  /\ call.op \in {"dot", "dotpair", "nrm2"}
  /\ call.functor # "none"

\* C17: in a reduction final runs exactly once, and only after every
\* partition state has been initialised, all rows have been accumulated and
\* all states have been merged; each result entry is assigned exactly once
\* per call, with the combined total, and holds no partial sum before.
C17_FinalOnceAfterAllMerges ==
  Reducing =>
    /\ calls.final <= 1
    /\ calls.final = 1 =>
         /\ calls.init = calls.parts
         /\ calls.join = calls.parts - 1
         /\ next = RangeEnd(call)
    /\ calls.final = 0 => r = R0 /\ \A k \in DOMAIN rw : rw[k] = 0
    /\ Finished =>
         /\ calls.final = 1
         /\ \A k \in ResultEntries :
              /\ rw[k] = 1
              /\ r[k] = SerialReduce(call, X0, Y0, R0)[k]

\* M with every column but k changed.
OnlyColumn(M, k) ==
  [i \in DOMAIN M |->
     [j \in DOMAIN M[i] |-> IF j = k THEN M[i][j] ELSE M[i][j] + 1]]

\* C18: the values dot and nrm2_squared write are those of the same launch
\* run by one worker over the rows in order, whatever the number of
\* partitions, the rows each took and the order of the merges; and entry k
\* is the same when every other column of X and Y holds other values.
C18_ResultIndependentOfPartition ==
  (Finished /\ call.via = "dispatch" /\ call.op \in {"dot", "nrm2"}) =>
    /\ r = SerialReduce(call, X0, Y0, R0)
    /\ \A k \in 0 .. numCols - 1 :
         r[k] = SerialReduce(call, OnlyColumn(X0, k), OnlyColumn(Y0, k), R0)[k]

\* The runtime-column-loop dot on 17 columns and three rows: two partitions
\* each took rows, partition 2 was merged into partition 1 and the total
\* was written.
C18_Witness ==
  /\ pc = "done"
  /\ call.op = "dot"
  /\ call.via = "dispatch"
  /\ call.functor = "MV_Dot_Right_FunctorVector"
  /\ numRows = 3
  /\ calls.parts = 2
  /\ calls.join = 1
  /\ live = {1}
  /\ acc[2][0] # 0
  /\ acc[1][0] # acc[2][0]
  /\ r[0] = acc[1][0]
  /\ r[0] # 0

\* A step in which a worker's fill invocation takes row `next`.
FillsRow == pc = "for" /\ call.op = "fill" /\ next' = next + 1

\* The step assigns every element of row i once and no other element.
WritesExactlyRow(i) ==
  /\ \A a \in DOMAIN xw : \A b \in DOMAIN xw[a] :
       xw'[a][b] = xw[a][b] + (IF a = i THEN 1 ELSE 0)
  /\ \A a \in DOMAIN X : a # i => X'[a] = X[a]

\* C19: during fill (X, v) the invocation for row i assigns exactly the
\* elements X[i, 0 .. columns - 1], and no element of X is assigned more than
\* once (so not by two workers), however the rows are split among workers.
C19_FillWritesDisjointRows ==
  /\ [][FillsRow => WritesExactlyRow(next)]_vars
  /\ [](call.op = "fill" =>
          \A a \in DOMAIN xw : \A b \in DOMAIN xw[a] : xw[a][b] <= 1)

\* A fill of three rows and two columns split among two workers has ended:
\* every element has been assigned once.
C19_Witness ==
  /\ pc = "done"
  /\ call.op = "fill"
  /\ call.via = "dispatch"
  /\ calls.parts = 2
  /\ numRows = 3
  /\ numCols = 2
  /\ \A a \in 0 .. 2 : \A b \in 0 .. 1 : xw[a][b] = 1 /\ X[a][b] = call.val

\* C20: with no columns dot (result, X, Y) matches no branch: nothing is
\* launched, init, join and final are never invoked, no row is visited and
\* every entry of the result container keeps its value, for every rows.
C20_NoColumnsDotDoesNothing ==
  (call.op = "dot" /\ call.via = "dispatch" /\ numCols = 0) =>
    /\ call.functor = "none"
    /\ calls = NoCalls
    /\ next = 0
    /\ rd = {}
    /\ r = R0
    /\ \A k \in DOMAIN rw : rw[k] = 0
    /\ pc \in {"done", "returned"}

\* dot on three rows and no columns has returned; the result container still
\* holds what it held.
C20_Witness ==
  /\ pc = "returned"
  /\ call.op = "dot"
  /\ call.via = "dispatch"
  /\ numCols = 0
  /\ numRows = 3
  /\ DOMAIN r = {0}
  /\ r[0] = Garbage

\* The indices below the column count.
Columns == 0 .. numCols - 1

\* C21: in every reduction dot (result, X, Y) launches, the reduction state
\* has value_count = columns slots and these are the slots the functor's
\* loops access (UNROLL of them in an unrolled functor); no accumulator
\* slot, column of X or Y or result entry of index >= columns is accessed.
C21_SlotsMatchLoops ==
  (call.op = "dot" /\ call.via = "dispatch" /\ call.functor # "none") =>
    /\ SlotCount(call) = numCols
    /\ Functor_slots(call) = 0 .. SlotCount(call) - 1
    /\ call.functor \in UnrolledFunctors => call.UNROLL = call.value_count
    /\ pc = "reduce" => \A w \in DOMAIN acc : DOMAIN acc[w] = Columns
    /\ touched \subseteq Columns
    /\ \A e \in rd : e[2] \in Columns
    /\ Functor_final_writes(call) \subseteq Columns
    /\ \A k \in DOMAIN rw : k >= numCols => rw[k] = 0 /\ r[k] = R0[k]
    /\ Finished =>
         /\ touched = Columns
         /\ \A k \in Columns : rw[k] = 1
         /\ numRows > 0 => rd = {"X", "Y"} \X Columns

\* The unrolled functor of trip count 16 has reduced three rows of 16
\* columns on two partitions: slots, columns and result entries 0 .. 15 were
\* accessed and the spare result entry 16 was not.
C21_Witness ==
  /\ pc = "done"
  /\ call.op = "dot"
  /\ call.via = "dispatch"
  /\ call.functor = "MV_Dot_Right_FunctorUnroll"
  /\ call.UNROLL = UnrollMax
  /\ call.value_count = UnrollMax
  /\ numRows = 3
  /\ calls.parts = 2
  /\ touched = 0 .. UnrollMax - 1
  /\ rd = {"X", "Y"} \X (0 .. UnrollMax - 1)
  /\ rw[UnrollMax - 1] = 1
  /\ rw[UnrollMax] = 0
  /\ r[UnrollMax] = Garbage

====
